---------------------------- MODULE Spec2Model ----------------------------
(***************************************************************************)
(* State-machine model of the authorization controller of                  *)
(* smartinbox-backend (Controllers/authController.js), its Mongoose model  *)
(* (Models/ContextModel.js) and the three routes that reach it.            *)
(*                                                                         *)
(* Node runs every handler to completion between two awaits, so a step of  *)
(* the model is a turn of the event loop: the handler's code from the      *)
(* await it resumes after up to its next await or its end, the promise     *)
(* reactions it triggers included.  What MongoDB does with an awaited      *)
(* operation is a step of its own wherever the handler goes on to read or  *)
(* write shared state, because other handlers run between the moment       *)
(* MongoDB executes an operation and the moment the awaiting handler       *)
(* resumes.  A request's arrival is taken together with its first access   *)
(* to shared state: until then no other request can tell it has arrived.   *)
(***************************************************************************)
EXTENDS Naturals, Sequences, FiniteSets, TLC

VARIABLES
    store,        \* the Context collection: a sequence of documents
    credentials,  \* oAuth2Client.credentials, the process-wide credential slot
    listeners,    \* oAuth2Client's listeners of 'tokensSaved', in registration order
    req           \* the HTTP requests: inputs, position, locals, response, history

vars == <<store, credentials, listeners, req>>

(***************************************************************************)
(* Bounds of the model.                                                    *)
(***************************************************************************)
\* Number of HTTP requests the server receives in one run.
MaxReqs == 3

\* Number of HTTP requests in the runs checked for liveness.
MaxFairReqs == 2

Reqs == 1..MaxReqs

(***************************************************************************)
(* Values.                                                                 *)
(***************************************************************************)
\* JavaScript's undefined: an absent property, query parameter or body field.
Undefined == "undefined"

\* The fixed identity.
emailId == "irctcvivek62@gmail.com"

\* Another address a context can be saved for.
OtherEmail == "a@x.com"

\* The schema's default for token: the blank sentinel, the string " ".
\* A string is modelled as the sequence of its lexemes.
BlankToken == <<" ">>

\* The properties of a credential set, in the order the provider sends them.
CredentialKeys == <<"access_token", "refresh_token">>

KeySet == {CredentialKeys[i] : i \in 1..Len(CredentialKeys)}

\* new OAuth2(...).credentials before any setCredentials: the empty object,
\* every property of which reads undefined.
EmptyCredentials == [k \in KeySet |-> Undefined]

\* The credential sets a token exchange can return: with a refresh token (a
\* first consent) and without one (a repeated consent).
TokenSets ==
    { [k \in KeySet |-> IF k = "access_token" THEN "at1" ELSE "rt1"],
      [k \in KeySet |-> IF k = "access_token" THEN "at2" ELSE Undefined] }

\* A stored token that is neither blank nor parsable: a truncated object.
CorruptToken == <<"{", "access_token">>

(***************************************************************************)
(* JSON.stringify and JSON.parse on credential sets.                       *)
(***************************************************************************)
RECURSIVE Members(_, _)
\* The members of obj from key number i on: properties whose value is
\* undefined are left out, as JSON.stringify leaves them out.
Members(obj, i) ==
    IF i > Len(CredentialKeys) THEN <<>>
    ELSE LET k == CredentialKeys[i]
         IN  (IF obj[k] = Undefined THEN <<>> ELSE <<k, obj[k]>>)
             \o Members(obj, i + 1)

\* A mutant of JSONstringify: the refresh token is not serialized.
JSONstringifyDropsRefresh(obj) ==
    <<"{">> \o (IF obj["access_token"] = Undefined THEN <<>>
                ELSE <<"access_token", obj["access_token"]>>) \o <<"}">>

JSONstringify(obj) == <<"{">> \o Members(obj, 1) \o <<"}">>

\* Whether JSON.parse accepts text as an object of string members.
Parsable(text) ==
    /\ Len(text) >= 2
    /\ text[1] = "{"
    /\ text[Len(text)] = "}"
    /\ (Len(text) - 2) % 2 = 0
    /\ \A i \in 1..((Len(text) - 2) \div 2) : text[2 * i] \in KeySet

\* JSON.parse(text) for a text it accepts: a property the text does not
\* mention reads undefined; of a repeated key the last member wins.
JSONparse(text) ==
    [k \in KeySet |->
        LET at == {i \in 1..((Len(text) - 2) \div 2) : text[2 * i] = k}
        IN  IF at = {} THEN Undefined
            ELSE text[2 * (CHOOSE i \in at : \A j \in at : j <= i) + 1]]

(***************************************************************************)
(* The Context collection.                                                 *)
(***************************************************************************)
\* A mutant of NewContext: the token is left undefined instead of defaulted.
NewContextNoDefault(name, email, context) ==
    [name |-> name, email |-> email, context |-> context,
     token |-> <<Undefined>>]

\* new Context({name, email, context}): token takes the schema's default.
NewContext(name, email, context) ==
    [name |-> name, email |-> email, context |-> context, token |-> BlankToken]

\* The documents of coll with the given email.
WithEmail(coll, email) == SelectSeq(coll, LAMBDA d : d.email = email)

\* Context.findOne({email}): the first match, or null (the empty sequence).
FindOne(coll, email) ==
    LET found == WithEmail(coll, email)
    IN  IF found = <<>> THEN <<>> ELSE <<found[1]>>

\* A mutant of UniqueIndexAllows: the schema declares no unique index.
NoUniqueIndex(coll, doc) == TRUE

\* The unique index on email: an insert of doc is accepted only if no
\* document of the collection has its email.
UniqueIndexAllows(coll, doc) == WithEmail(coll, doc.email) = <<>>

\* A mutant of FindOneAndUpdate: the matched document is replaced by the
\* update instead of being modified by it.
FindOneAndReplace(coll, email, token) ==
    IF WithEmail(coll, email) = <<>>
    THEN Append(coll, [name |-> Undefined, email |-> email,
                       context |-> Undefined, token |-> token])
    ELSE LET first == CHOOSE i \in 1..Len(coll) :
                        /\ coll[i].email = email
                        /\ \A j \in 1..(i - 1) : coll[j].email # email
         IN  [coll EXCEPT ![first] =
                 [name |-> Undefined, email |-> email, context |-> Undefined,
                  token |-> token]]

\* Context.findOneAndUpdate({email}, {token}, {new: true, upsert: true}):
\* sets token on the first match and leaves its other fields alone; without a
\* match inserts a document made of the filter and the update.
FindOneAndUpdate(coll, email, token) ==
    IF WithEmail(coll, email) = <<>>
    THEN Append(coll, [name |-> Undefined, email |-> email,
                       context |-> Undefined, token |-> token])
    ELSE LET first == CHOOSE i \in 1..Len(coll) :
                        /\ coll[i].email = email
                        /\ \A j \in 1..(i - 1) : coll[j].email # email
         IN  [coll EXCEPT ![first].token = token]

(***************************************************************************)
(* Requests.                                                               *)
(***************************************************************************)
\* The bodies POST /api/saveContext is sent: complete ones for the fixed
\* identity and for another address, and ones with a field missing.
Bodies ==
    { [name |-> "A", emailId |-> emailId, context |-> "ctx"],
      [name |-> "A", emailId |-> OtherEmail, context |-> "ctx"],
      [name |-> "A", emailId |-> OtherEmail, context |-> Undefined],
      [name |-> Undefined, emailId |-> OtherEmail, context |-> "ctx"],
      [name |-> "A", emailId |-> Undefined, context |-> "ctx"] }

\* The code query parameter GET /callback is sent: absent, or a code.
Codes == {Undefined, "ABC"}

\* !x for a string or undefined.
Falsy(x) == x \in {Undefined, ""}

\* A request slot before its request arrives.  The fields from reads on are
\* history: what the request has done so far.
NoRequest ==
    [kind |-> "none", pc |-> "idle", status |-> 0, body |-> "",
     code |-> Undefined,
     fields |-> [name |-> Undefined, emailId |-> Undefined, context |-> Undefined],
     tokens |-> EmptyCredentials, savedToken |-> <<>>, userContext |-> <<>>,
     error |-> "none",
     reads |-> 0, writes |-> 0, exchanges |-> 0, urls |-> 0, opens |-> 0,
     regs |-> 0, changedCredentials |-> FALSE, hadToken |-> FALSE,
     pending |-> {}, signal |-> "none", resumedBy |-> 0, answers |-> 0]

\* Requests arrive in the order of their numbers.
Arrives(r) ==
    /\ req[r].kind = "none"
    /\ IF r = 1 THEN TRUE ELSE req[r - 1].kind # "none"

\* res.status(status).send(body) or .json({message: body}) as the last
\* thing a handler does.
Respond(rec, status, body) ==
    [rec EXCEPT !.pc = "done", !.status = status, !.body = body,
                !.answers = @ + 1]

\* Whether the collection holds a non-blank token for the fixed identity.
HasToken(coll) ==
    /\ FindOne(coll, emailId) # <<>>
    /\ FindOne(coll, emailId)[1].token # BlankToken

\* Whether it holds a well-formed one.
HasUsableToken(coll) ==
    /\ HasToken(coll)
    /\ Parsable(FindOne(coll, emailId)[1].token)

(***************************************************************************)
(* The 'tokensSaved' signal.                                               *)
(***************************************************************************)
\* A mutant of tokensSavedListener: the listener drops the error it is given.
tokensSavedListenerIgnoresError(rec, error, by) ==
    IF rec.pc # "waiting" THEN rec
    ELSE
    [Respond(rec, 200, "Authorization completed, token saved.")
        EXCEPT !.resumedBy = by]

\* A mutant of tokensSavedListener: on an error the call waits for the next
\* signal instead of answering.
tokensSavedListenerRetries(rec, error, by) ==
    IF rec.pc # "waiting" THEN rec
    ELSE IF error # "none"
    THEN [rec EXCEPT !.urls = @ + 1, !.opens = @ + 1, !.regs = @ + 1]
    ELSE [Respond(rec, 200, "Authorization completed, token saved.")
             EXCEPT !.resumedBy = by]

\* The once-listener getNewToken registers, with the promise reactions of
\* the authorize call it belongs to: an error rejects the promise and the
\* call answers 500, null resolves it and the call answers 200.
tokensSavedListener(rec, error, by) ==
    IF rec.pc # "waiting" THEN rec
    ELSE IF error # "none"
    THEN [Respond(rec, 500, "Authorization failed.")
             EXCEPT !.resumedBy = by]
    ELSE [Respond(rec, 200, "Authorization completed, token saved.")
             EXCEPT !.resumedBy = by]

\* A mutant of Emit: only the listener registered first is run.
EmitFirstOnly(reqs, error, by) ==
    [r \in Reqs |->
        IF listeners # <<>> /\ listeners[1] = r
        THEN tokensSavedListener(reqs[r], error, by)
        ELSE reqs[r]]

\* oAuth2Client.emit('tokensSaved', error) by request by: every registered
\* listener runs, and the reactions follow before any other handler does.
Emit(reqs, error, by) ==
    [r \in Reqs |->
        IF \E i \in 1..Len(listeners) : listeners[i] = r
        THEN tokensSavedListener(reqs[r], error, by)
        ELSE reqs[r]]

(***************************************************************************)
(* POST /api/auth: authorize.                                              *)
(***************************************************************************)
\* A mutant of NeedsNewToken: every call takes the token generation flow.
NeedsNewTokenAlways(userContext) == TRUE

\* A mutant of NeedsNewToken: the blank sentinel is not tested.
NeedsNewTokenOnlyNull(userContext) == userContext = <<>>

\* !userContext || userContext.token === " "
NeedsNewToken(userContext) ==
    \/ userContext = <<>>
    \/ userContext[1].token = BlankToken

\* A mutant of getNewToken: the callback is called as soon as the browser is
\* opened, not when 'tokensSaved' arrives.
getNewTokenAnswersAtOnce(rec) ==
    [Respond(rec, 200, "Authorization completed, token saved.")
        EXCEPT !.urls = @ + 1, !.opens = @ + 1, !.regs = @ + 1]

\* getNewToken as far as the request goes: the URL is generated, the browser
\* is opened on it, the listener is registered and the call is left pending.
getNewToken(rec) ==
    [rec EXCEPT !.urls = @ + 1, !.opens = @ + 1, !.regs = @ + 1,
                !.pc = "waiting"]

\* The request arrives, the handler runs up to await Context.findOne, and
\* MongoDB executes the findOne or fails to.  The handler has touched nothing
\* shared before the read, so the arrival and the read are one step.
authorize(r) ==
    /\ Arrives(r)
    /\ LET rec == [NoRequest EXCEPT !.kind = "authorize", !.pc = "found",
                                    !.reads = @ + 1,
                                    !.hadToken = HasUsableToken(store)]
       IN  \/ req' = [req EXCEPT ![r] =
                        [rec EXCEPT !.userContext = FindOne(store, emailId)]]
           \/ req' = [req EXCEPT ![r] = [rec EXCEPT !.error = "StoreError"]]
    /\ UNCHANGED <<store, credentials, listeners>>

\* A mutant of authorizeCatch: an error falls back to the token generation
\* flow.
authorizeCatchFallsBack(rec, error) == getNewToken([rec EXCEPT !.error = error])

\* The catch block of authorize.
authorizeCatch(rec, error) ==
    [Respond(rec, 500, "Error during authorization.") EXCEPT !.error = error]

\* The handler resumes after the await and runs to its end, or into the
\* promise that waits for 'tokensSaved'.
authorizeResume(r) ==
    /\ req[r].pc = "found"
    /\ IF req[r].error # "none"
       THEN /\ req' = [req EXCEPT ![r] = authorizeCatch(@, req[r].error)]
            /\ UNCHANGED <<credentials, listeners>>
       ELSE IF NeedsNewToken(req[r].userContext)
       THEN /\ req' = [req EXCEPT ![r] = getNewToken(@)]
            /\ listeners' = Append(listeners, r)
            /\ UNCHANGED credentials
       ELSE IF ~Parsable(req[r].userContext[1].token)
       THEN /\ req' = [req EXCEPT ![r] = authorizeCatch(@, "SyntaxError")]
            /\ UNCHANGED <<credentials, listeners>>
       ELSE /\ credentials' = JSONparse(req[r].userContext[1].token)
            /\ req' = [req EXCEPT ![r] =
                         [Respond(@, 200,
                              "Token already exists, authorization successful.")
                             EXCEPT !.changedCredentials =
                                 (credentials' # credentials)]]
            /\ UNCHANGED listeners
    /\ UNCHANGED store

(***************************************************************************)
(* GET /callback: handleCallback.                                          *)
(***************************************************************************)
\* The catch block: the error is emitted on 'tokensSaved' and answered 500.
handleCallbackCatch(reqs, r, error) ==
    [Emit(reqs, error, r) EXCEPT ![r] =
        [Respond(@, 500, "An error occurred during authentication.")
            EXCEPT !.error = error, !.signal = "error"]]

\* A mutant of MissingCode: only the empty string counts as no code.
MissingCodeOnlyEmpty(code) == code = ""

\* A mutant of MissingCode: a callback no authorize call waits for is
\* rejected like one without a code.
MissingCodeOrStray(code) == Falsy(code) \/ listeners = <<>>

\* !code
MissingCode(code) == Falsy(code)

\* The request arrives: without a code it is answered 400 at once.  With
\* one the handler awaits oAuth2Client.getToken(code), which touches nothing
\* shared, and resumes: with tokens it adopts them, serializes them and runs
\* up to await Context.findOneAndUpdate; with an error it runs its catch block.
handleCallback(r, code) ==
    /\ Arrives(r)
    /\ LET rec == [NoRequest EXCEPT
                      !.kind = "handleCallback", !.code = code,
                      !.pending = {listeners[i] : i \in 1..Len(listeners)}]
           arrived == [req EXCEPT ![r] = rec]
       IN  IF MissingCode(code)
           THEN /\ req' = [req EXCEPT ![r] =
                             Respond(rec, 400, "Authorization code is missing.")]
                /\ UNCHANGED <<credentials, listeners>>
           ELSE \/ \E tokens \in TokenSets :
                     /\ credentials' = tokens
                     /\ req' = [arrived EXCEPT
                                  ![r].pc = "findOneAndUpdate",
                                  ![r].exchanges = @ + 1,
                                  ![r].tokens = tokens,
                                  ![r].savedToken = JSONstringify(tokens),
                                  ![r].changedCredentials =
                                      (tokens # credentials)]
                     /\ UNCHANGED listeners
                \/ /\ req' = handleCallbackCatch(arrived, r, "ExchangeError")
                   /\ listeners' = <<>>
                   /\ UNCHANGED credentials
    /\ UNCHANGED store

\* MongoDB executes the upsert, or fails to.
ContextFindOneAndUpdate(r) ==
    /\ req[r].pc = "findOneAndUpdate"
    /\ \/ /\ store' = FindOneAndUpdate(store, emailId, req[r].savedToken)
          /\ req' = [req EXCEPT ![r].pc = "updated", ![r].writes = @ + 1]
       \/ /\ req' = [req EXCEPT ![r].pc = "updated",
                                ![r].error = "StoreError"]
          /\ UNCHANGED store
    /\ UNCHANGED <<credentials, listeners>>

\* The handler resumes after the upsert: it emits 'tokensSaved' with null
\* and answers 200, or runs its catch block.
handleCallbackResume(r) ==
    /\ req[r].pc = "updated"
    /\ IF req[r].error # "none"
       THEN req' = handleCallbackCatch(req, r, req[r].error)
       ELSE req' = [Emit(req, "none", r) EXCEPT ![r] =
                      [Respond(@, 200,
                           "Access Granted. Now you can close this tab.")
                          EXCEPT !.signal = "null"]]
    /\ listeners' = <<>>
    /\ UNCHANGED <<store, credentials>>

(***************************************************************************)
(* POST /api/saveContext: saveContext.                                     *)
(***************************************************************************)
\* A mutant of saveContextCatch: the error is logged and nothing is sent.
saveContextCatchSilent(rec) == [rec EXCEPT !.pc = "unanswered"]

\* The catch block of saveContext.
saveContextCatch(rec) == Respond(rec, 500, "Failed to save context")

\* A mutant of MissingFields: context is not tested.
MissingFieldsNoContext(fields) == Falsy(fields.name) \/ Falsy(fields.emailId)

\* !context || !name || !emailId
MissingFields(fields) ==
    Falsy(fields.context) \/ Falsy(fields.name) \/ Falsy(fields.emailId)

\* A mutant of ContextSave: the save is an upsert by email that overwrites
\* the whole document.
ContextSaveOverwrites(coll, doc) ==
    [store |-> IF WithEmail(coll, doc.email) = <<>> THEN Append(coll, doc)
               ELSE [i \in 1..Len(coll) |->
                        IF coll[i].email = doc.email THEN doc ELSE coll[i]],
     error |-> "none"]

\* newContext.save() as MongoDB executes it: the document is appended, or
\* the unique index refuses it and the collection stays as it was.
ContextSave(coll, doc) ==
    IF UniqueIndexAllows(coll, doc)
    THEN [store |-> Append(coll, doc), error |-> "none"]
    ELSE [store |-> coll, error |-> "DuplicateKey"]

\* The request arrives: with a field missing it is answered 400 at once.
\* Otherwise the handler awaits newContext.save(): MongoDB executes the
\* insert (the unique index refuses a second document for an email, and the
\* insert can fail for other reasons) and the handler resumes and answers.
\* The handler touches nothing shared but the collection, so its request is
\* one step, taken when MongoDB executes the insert.
saveContext(r, fields) ==
    /\ Arrives(r)
    /\ LET rec == [NoRequest EXCEPT !.kind = "saveContext", !.fields = fields]
           doc == NewContext(fields.name, fields.emailId, fields.context)
           saved == ContextSave(store, doc)
       IN  IF MissingFields(fields)
           THEN /\ req' = [req EXCEPT ![r] =
                             Respond(rec, 400, "Missing required fields")]
                /\ UNCHANGED store
           ELSE \/ /\ store' = saved.store
                   /\ req' = [req EXCEPT ![r] =
                                IF saved.error = "none"
                                THEN [Respond(rec, 200,
                                          "Context saved successfully")
                                         EXCEPT !.writes = @ + 1]
                                ELSE saveContextCatch(
                                         [rec EXCEPT !.error = saved.error])]
                \/ /\ req' = [req EXCEPT ![r] =
                                saveContextCatch(
                                    [rec EXCEPT !.error = "StoreError"])]
                   /\ UNCHANGED store
    /\ UNCHANGED <<credentials, listeners>>

(***************************************************************************)
(* Specifications.                                                         *)
(***************************************************************************)
\* What the collection can hold when the server starts: nothing, or one
\* document for the fixed identity whose token is blank, valid or corrupt.
InitialStores ==
    { <<>>,
      <<NewContext("V", emailId, "inbox")>>,
      <<[NewContext("V", emailId, "inbox") EXCEPT
            !.token = JSONstringify(
                CHOOSE t \in TokenSets : t["refresh_token"] # Undefined)]>>,
      <<[NewContext("V", emailId, "inbox") EXCEPT !.token = CorruptToken]>> }

Init ==
    /\ store \in InitialStores
    /\ credentials = EmptyCredentials
    /\ listeners = <<>>
    /\ req = [r \in Reqs |-> NoRequest]

\* What request r does after its arrival.
Step(r) ==
    \/ authorizeResume(r)
    \/ ContextFindOneAndUpdate(r)
    \/ handleCallbackResume(r)

\* The arrival of request r.
Arrival(r) ==
    \/ authorize(r)
    \/ \E code \in Codes : handleCallback(r, code)
    \/ \E fields \in Bodies : saveContext(r, fields)

Next == \E r \in Reqs : Arrival(r) \/ Step(r)

Spec == Init /\ [][Next]_vars

\* The runs checked for liveness: fewer requests, and every operation the
\* event loop or the database has taken up is eventually carried out.
FairNext == \E r \in 1..MaxFairReqs : Arrival(r) \/ Step(r)

FairSpec ==
    /\ Init
    /\ [][FairNext]_vars
    /\ \A r \in 1..MaxFairReqs : WF_vars(Step(r))

(***************************************************************************)
(* Vocabulary of the properties.                                           *)
(***************************************************************************)
IsAuthorize(r) == req[r].kind = "authorize"

IsCallback(r) == req[r].kind = "handleCallback"

IsSaveContext(r) == req[r].kind = "saveContext"

Answered(r) == req[r].pc = "done"

\* The authorize call r is suspended on the handshake.
Suspended(r) == IsAuthorize(r) /\ req[r].pc = "waiting"

Completed == "Authorization completed, token saved."

AlreadyAuthorized == "Token already exists, authorization successful."

\* The callback r has ended in failure.
CallbackFailed(r) ==
    IsCallback(r) /\ Answered(r) /\ req[r].status \in {400, 500}

\* The handshake of call r has not started, or has started exactly once.
NoHandshake(r) ==
    /\ req[r].urls = 0 /\ req[r].opens = 0 /\ req[r].regs = 0
    /\ \A i \in 1..Len(listeners) : listeners[i] # r

OneHandshake(r) ==
    /\ req[r].urls = 1 /\ req[r].opens = 1 /\ req[r].regs = 1
    /\ Suspended(r) =>
         Cardinality({i \in 1..Len(listeners) : listeners[i] = r}) = 1

(***************************************************************************)
(* C1.  An authorize call that entered the handshake path answers 200      *)
(* 'Authorization completed, token saved.' only after a handleCallback has *)
(* exchanged a code, persisted a non-blank serialized token for the fixed  *)
(* identity and then emitted 'tokensSaved' with null; and whenever such an *)
(* answer has been sent the collection holds a non-blank token for the     *)
(* fixed identity.                                                         *)
(***************************************************************************)
C1_CompletedOnlyAfterTokenSaved ==
    \A a \in Reqs :
        (IsAuthorize(a) /\ req[a].body = Completed) =>
            /\ req[a].status = 200
            /\ req[a].regs = 1
            /\ req[a].resumedBy \in Reqs
            /\ LET c == req[a].resumedBy
               IN  IF c \in Reqs
                   THEN /\ IsCallback(c)
                        /\ ~Falsy(req[c].code)
                        /\ req[c].exchanges = 1
                        /\ req[c].writes = 1
                        /\ req[c].savedToken # BlankToken
                        /\ req[c].error = "none"
                        /\ req[c].signal = "null"
                   ELSE FALSE
            /\ HasToken(store)

C1_Witness ==
    \E a \in Reqs : IsAuthorize(a) /\ req[a].body = Completed

(***************************************************************************)
(* C2.  As claimed: if the collection holds a well-formed non-blank token  *)
(* for the fixed identity when authorize is invoked, the call answers 200  *)
(* 'Token already exists, authorization successful.' after exactly one     *)
(* read, and starts no handshake, exchanges no code and writes nothing.    *)
(***************************************************************************)
C2_AsClaimed ==
    \A a \in Reqs :
        (IsAuthorize(a) /\ req[a].hadToken) =>
            /\ req[a].reads = 1
            /\ NoHandshake(a) /\ ~Suspended(a)
            /\ req[a].exchanges = 0 /\ req[a].writes = 0
            /\ Answered(a) =>
                 req[a].status = 200 /\ req[a].body = AlreadyAuthorized

(***************************************************************************)
(* C2, amended.  Such a call, and every later one, makes exactly one read, *)
(* starts no handshake, exchanges no code and writes nothing, and answers  *)
(* 200 'Token already exists, authorization successful.' unless its read   *)
(* fails, in which case it answers 500 'Error during authorization.'.      *)
(***************************************************************************)
C2_TokenPresentNoHandshake ==
    \A a \in Reqs :
        (IsAuthorize(a) /\ req[a].hadToken) =>
            /\ req[a].reads = 1
            /\ NoHandshake(a) /\ ~Suspended(a)
            /\ req[a].exchanges = 0 /\ req[a].writes = 0
            /\ Answered(a) =>
                 IF req[a].error = "StoreError"
                 THEN /\ req[a].status = 500
                      /\ req[a].body = "Error during authorization."
                 ELSE /\ req[a].status = 200
                      /\ req[a].body = AlreadyAuthorized
                      /\ req[a].error = "none"

C2_Witness ==
    \E a, b \in Reqs :
        /\ a < b
        /\ IsAuthorize(a) /\ req[a].hadToken /\ req[a].body = AlreadyAuthorized
        /\ IsAuthorize(b) /\ req[b].hadToken /\ req[b].body = AlreadyAuthorized

(***************************************************************************)
(* C3.  Every authorize call whose lookup returns no record, or a record   *)
(* with the blank token, starts exactly one handshake once it resumes: one *)
(* URL, one browser-open, one once-listener registered for that call.      *)
(***************************************************************************)
LookupFoundNoToken(a) ==
    /\ IsAuthorize(a)
    /\ req[a].error # "StoreError"
    /\ \/ req[a].userContext = <<>>
       \/ req[a].userContext[1].token = BlankToken

C3_OneHandshakePerCall ==
    \A a \in Reqs :
        LookupFoundNoToken(a) =>
            IF req[a].pc = "found" THEN NoHandshake(a) ELSE OneHandshake(a)

C3_Witness ==
    \E a, b \in Reqs :
        /\ LookupFoundNoToken(a) /\ Suspended(a) /\ req[a].userContext = <<>>
        /\ LookupFoundNoToken(b) /\ Suspended(b) /\ req[b].userContext # <<>>

(***************************************************************************)
(* C4.  As claimed: whenever handleCallback fails (code missing, exchange  *)
(* error, persistence error), no authorize call that was suspended when    *)
(* the callback arrived is still suspended once the callback has answered. *)
(***************************************************************************)
C4_FailureSignalsEveryPending ==
    \A c \in Reqs :
        CallbackFailed(c) => \A a \in req[c].pending : ~Suspended(a)

(***************************************************************************)
(* C5.  As claimed: a handleCallback request that ends in failure has not  *)
(* changed the active credential set.                                      *)
(***************************************************************************)
C5_FailureLeavesCredentials ==
    \A c \in Reqs : CallbackFailed(c) => ~req[c].changedCredentials

(***************************************************************************)
(* C6.  In every reachable state the collection holds at most one document *)
(* per email address, whatever saveContext and handleCallback requests     *)
(* have run.                                                               *)
(***************************************************************************)
C6_OneRecordPerEmail ==
    \A i, j \in 1..Len(store) : store[i].email = store[j].email => i = j

\* A saveContext for the fixed identity was refused after a token was saved.
C6_Witness ==
    /\ HasToken(store)
    /\ \E r \in Reqs :
         /\ IsSaveContext(r) /\ Answered(r)
         /\ req[r].fields.emailId = emailId
         /\ req[r].error = "DuplicateKey"
    /\ \E c \in Reqs : IsCallback(c) /\ req[c].writes = 1

(***************************************************************************)
(* C7.  As claimed: a saveContext request with name, emailId and context   *)
(* all present is answered 200 'Context saved successfully'.               *)
(***************************************************************************)
AllFieldsPresent(fields) ==
    fields.name # Undefined /\ fields.emailId # Undefined
        /\ fields.context # Undefined

C7_AsClaimed ==
    \A r \in Reqs :
        (IsSaveContext(r) /\ AllFieldsPresent(req[r].fields) /\ Answered(r)) =>
            /\ req[r].status = 200
            /\ req[r].body = "Context saved successfully"

(***************************************************************************)
(* C7, amended.  A saveContext request with name, emailId and context all  *)
(* present either appends one document holding those three fields and the  *)
(* blank token and is answered 200 'Context saved successfully', or, when  *)
(* the insert fails, leaves the collection as it was and is answered 500   *)
(* 'Failed to save context'; the insert fails whenever a document with     *)
(* that email exists.                                                      *)
(***************************************************************************)
C7_SaveContextCreatesOrFails ==
    [][\A r \in Reqs :
         (req[r].kind = "none" /\ req'[r].kind = "saveContext"
              /\ AllFieldsPresent(req'[r].fields)) =>
            LET f == req'[r].fields
                exists == \E i \in 1..Len(store) : store[i].email = f.emailId
            IN  /\ req'[r].pc = "done"
                /\ \/ /\ req'[r].status = 200
                      /\ req'[r].body = "Context saved successfully"
                      /\ ~exists
                      /\ store' = Append(store,
                            [name |-> f.name, email |-> f.emailId,
                             context |-> f.context, token |-> <<" ">>])
                   \/ /\ req'[r].status = 500
                      /\ req'[r].body = "Failed to save context"
                      /\ store' = store
                      /\ req'[r].error \in {"DuplicateKey", "StoreError"}
                      /\ req'[r].error = "DuplicateKey" => exists
      ]_vars

C7_Witness ==
    \E r \in Reqs :
        /\ IsSaveContext(r) /\ req[r].status = 200
        /\ \E i \in 1..Len(store) :
             store[i] = [name |-> req[r].fields.name,
                         email |-> req[r].fields.emailId,
                         context |-> req[r].fields.context,
                         token |-> <<" ">>]

(***************************************************************************)
(* C8.  The upsert of a handleCallback changes only the token of the fixed *)
(* identity's document: an existing document keeps its name and context    *)
(* and no second one is created; without one exactly one is created; the   *)
(* documents of every other email are unchanged.                           *)
(***************************************************************************)
C8_UpsertChangesOnlyToken ==
    [][\A c \in Reqs :
         (req[c].pc = "findOneAndUpdate" /\ req'[c].pc = "updated"
              /\ req'[c].error = "none") =>
            /\ \A e \in {store[i].email : i \in 1..Len(store)} \ {emailId} :
                 WithEmail(store', e) = WithEmail(store, e)
            /\ \A i \in 1..Len(store') :
                 store'[i].email # emailId => i <= Len(store)
            /\ Len(WithEmail(store', emailId)) = 1
            /\ WithEmail(store', emailId)[1].token = req[c].savedToken
            /\ IF WithEmail(store, emailId) # <<>>
               THEN /\ Len(store') = Len(store)
                    /\ WithEmail(store', emailId)[1].name =
                           WithEmail(store, emailId)[1].name
                    /\ WithEmail(store', emailId)[1].context =
                           WithEmail(store, emailId)[1].context
               ELSE /\ Len(store') = Len(store) + 1
                    /\ WithEmail(store', emailId)[1].name = Undefined
                    /\ WithEmail(store', emailId)[1].context = Undefined
      ]_vars

\* A document created by saveContext has received the token of a callback
\* that went on to answer 200.
C8_Witness ==
    \E c, r \in Reqs :
        /\ IsCallback(c) /\ req[c].status = 200
        /\ IsSaveContext(r) /\ req[r].status = 200
        /\ req[r].fields.emailId = emailId
        /\ WithEmail(store, emailId) =
              <<[name |-> req[r].fields.name, email |-> emailId,
                 context |-> req[r].fields.context,
                 token |-> req[c].savedToken]>>

(***************************************************************************)
(* C9.  Round trip: when an authorize call adopts the stored token that a  *)
(* handleCallback persisted from the credential set T of its exchange, the *)
(* active credential set becomes T.                                        *)
(***************************************************************************)
C9_RoundTrip ==
    [][\A a, c \in Reqs :
         (/\ IsAuthorize(a) /\ req[a].pc = "found"
          /\ req'[a].body = AlreadyAuthorized
          /\ IsCallback(c) /\ req[c].writes = 1
          /\ req[a].userContext # <<>>
          /\ req[a].userContext[1].token = req[c].savedToken) =>
            credentials' = req[c].tokens
      ]_vars

\* A credential set with a refresh token, and one without, went round.
C9_Witness ==
    \E a, c \in Reqs :
        /\ IsAuthorize(a) /\ req[a].body = AlreadyAuthorized
        /\ IsCallback(c) /\ req[c].writes = 1
        /\ req[a].userContext[1].token = req[c].savedToken
        /\ req[c].tokens["refresh_token"] # Undefined
        /\ credentials = req[c].tokens

(***************************************************************************)
(* C10.  Under fair scheduling every request that has arrived is           *)
(* eventually answered, whatever exchange, read, write or parse failures   *)
(* occur, unless it is an authorize call suspended on the handshake.       *)
(***************************************************************************)
C10_EveryRequestAnswered ==
    \A r \in 1..MaxFairReqs :
        (req[r].kind # "none") ~> (Answered(r) \/ Suspended(r))

\* A callback whose upsert failed and an authorize call whose stored token
\* did not parse have both been answered 500.
C10_Witness ==
    \E c, a \in 1..MaxFairReqs :
        /\ IsCallback(c) /\ Answered(c) /\ req[c].error = "StoreError"
        /\ req[c].status = 500
        /\ IsAuthorize(a) /\ Answered(a) /\ req[a].error = "SyntaxError"
        /\ req[a].status = 500

(***************************************************************************)
(* Steps the later properties speak of.                                    *)
(***************************************************************************)
\* Request r arrives in this step as a request of the given kind.
ArrivesAs(r, kind) == req[r].kind = "none" /\ req'[r].kind = kind

\* Callback c emits 'tokensSaved' in this step.
Emits(c) == req[c].signal = "none" /\ req'[c].signal # "none"

\* Nothing about request r changes in this step.
Untouched(r) == req'[r] = req[r]

(***************************************************************************)
(* C11.  A handleCallback request with no authorization code is answered   *)
(* 400 'Authorization code is missing.' without a token exchange and       *)
(* without a write to the collection.                                      *)
(***************************************************************************)
C11_MissingCodeRejected ==
    [][\A c \in Reqs :
         (ArrivesAs(c, "handleCallback") /\ req'[c].code = Undefined) =>
            /\ req'[c].pc = "done"
            /\ req'[c].status = 400
            /\ req'[c].body = "Authorization code is missing."
            /\ req'[c].exchanges = 0 /\ req'[c].writes = 0
            /\ req'[c].tokens = EmptyCredentials
            /\ store' = store
            /\ credentials' = credentials
      ]_vars

C11_Witness ==
    \E c \in Reqs :
        IsCallback(c) /\ req[c].code = Undefined /\ req[c].status = 400

(***************************************************************************)
(* C12.  A saveContext request in which name, emailId or context is        *)
(* missing is answered 400 'Missing required fields' and leaves the        *)
(* collection unchanged.                                                   *)
(***************************************************************************)
C12_MissingFieldsRejected ==
    [][\A r \in Reqs :
         (ArrivesAs(r, "saveContext") /\ ~AllFieldsPresent(req'[r].fields)) =>
            /\ req'[r].pc = "done"
            /\ req'[r].status = 400
            /\ req'[r].body = "Missing required fields"
            /\ req'[r].writes = 0
            /\ store' = store
      ]_vars

\* Requests missing the name, the emailId and the context were all refused.
C12_Witness ==
    \E r1, r2, r3 \in Reqs :
        /\ IsSaveContext(r1) /\ req[r1].fields.name = Undefined
        /\ IsSaveContext(r2) /\ req[r2].fields.emailId = Undefined
        /\ IsSaveContext(r3) /\ req[r3].fields.context = Undefined
        /\ \A r \in {r1, r2, r3} : req[r].status = 400

(***************************************************************************)
(* C13.  When several authorize calls are suspended on the handshake, one  *)
(* 'tokensSaved' emitted by a handleCallback resumes all of them with the  *)
(* same outcome, each answers exactly once, and no listener remains        *)
(* registered after the emit.                                              *)
(***************************************************************************)
C13_OneSignalResumesAll ==
    [][/\ \A c \in Reqs :
            Emits(c) =>
              /\ listeners' = <<>>
              /\ \A a \in Reqs :
                   Suspended(a) =>
                     /\ req'[a].pc = "done"
                     /\ req'[a].answers = 1
                     /\ req'[a].resumedBy = c
                     /\ IF req'[c].signal = "null"
                        THEN req'[a].status = 200 /\ req'[a].body = Completed
                        ELSE /\ req'[a].status = 500
                             /\ req'[a].body = "Authorization failed."
       /\ \A r \in Reqs : req'[r].answers <= 1
      ]_vars

\* Two calls that were suspended together were resumed by one callback.
C13_Witness ==
    \E a, b, c \in Reqs :
        /\ a # b
        /\ IsAuthorize(a) /\ IsAuthorize(b) /\ IsCallback(c)
        /\ {a, b} \subseteq req[c].pending
        /\ req[a].resumedBy = c /\ req[b].resumedBy = c
        /\ req[a].answers = 1 /\ req[b].answers = 1
        /\ req[a].body = req[b].body
        /\ listeners = <<>>

(***************************************************************************)
(* C14.  An authorize call whose lookup found no token is suspended when   *)
(* it resumes, and a suspended call is answered only in a step in which a  *)
(* handleCallback emits 'tokensSaved': there is no timeout and no          *)
(* cancellation, so without such an emit it stays suspended.               *)
(***************************************************************************)
C14_SuspendedUntilSignal ==
    [][\A a \in Reqs :
         /\ (LookupFoundNoToken(a) /\ req[a].pc = "found" /\ ~Untouched(a)) =>
               /\ req'[a].pc = "waiting"
               /\ req'[a].answers = 0
               /\ \E i \in 1..Len(listeners') : listeners'[i] = a
         /\ Suspended(a) =>
               \/ Untouched(a) /\ \E i \in 1..Len(listeners') : listeners'[i] = a
               \/ \E c \in Reqs :
                    /\ req'[c].kind = "handleCallback" /\ Emits(c)
                    /\ req'[a].pc = "done" /\ req'[a].resumedBy = c
      ]_vars

\* Every other request has been answered and the call is still suspended.
C14_Witness ==
    \E a \in Reqs :
        /\ Suspended(a)
        /\ \A r \in Reqs \ {a} : Answered(r)
        /\ \E c \in Reqs : IsCallback(c)

(***************************************************************************)
(* C15.  When 'tokensSaved' carries an error, every authorize call         *)
(* suspended on it answers 500 'Authorization failed.' and is finished: it *)
(* starts no other handshake, reads nothing more and registers no new      *)
(* listener.                                                               *)
(***************************************************************************)
C15_ErrorSignalIsTerminal ==
    [][\A a \in Reqs :
         /\ \A c \in Reqs :
              (Suspended(a) /\ Emits(c) /\ req'[c].signal = "error") =>
                 /\ req'[a].pc = "done"
                 /\ req'[a].status = 500
                 /\ req'[a].body = "Authorization failed."
                 /\ req'[a].reads = req[a].reads
                 /\ req'[a].urls = 1 /\ req'[a].opens = 1 /\ req'[a].regs = 1
                 /\ \A i \in 1..Len(listeners') : listeners'[i] # a
         /\ (IsAuthorize(a) /\ req[a].body = "Authorization failed.") =>
                 /\ Untouched(a)
                 /\ \A i \in 1..Len(listeners') : listeners'[i] # a
      ]_vars

\* Two suspended calls were failed by a callback whose upsert failed.
C15_Witness ==
    \E a, b \in Reqs :
        /\ a # b
        /\ IsAuthorize(a) /\ req[a].body = "Authorization failed."
        /\ IsAuthorize(b) /\ req[b].body = "Authorization failed."
        /\ req[a].resumedBy = req[b].resumedBy
        /\ req[req[a].resumedBy].error = "StoreError"

(***************************************************************************)
(* C16.  When the read of authorize fails, or the stored non-blank token   *)
(* cannot be parsed, authorize answers 500, starts no handshake, writes    *)
(* nothing to the collection and leaves the active credential set          *)
(* unchanged.                                                              *)
(***************************************************************************)
LookupUnusable(a) ==
    /\ IsAuthorize(a)
    /\ \/ req[a].error = "StoreError"
       \/ /\ req[a].userContext # <<>>
          /\ req[a].userContext[1].token # <<" ">>
          /\ ~Parsable(req[a].userContext[1].token)

C16_UnusableLookupAnswers500 ==
    [][\A a \in Reqs :
         (LookupUnusable(a) /\ req[a].pc = "found" /\ ~Untouched(a)) =>
            /\ req'[a].pc = "done"
            /\ req'[a].status = 500
            /\ req'[a].answers = 1
            /\ req'[a].urls = 0 /\ req'[a].opens = 0 /\ req'[a].regs = 0
            /\ req'[a].writes = 0
            /\ listeners' = listeners
            /\ store' = store
            /\ credentials' = credentials
      ]_vars

\* A failed read and a corrupt token have both been answered 500.
C16_Witness ==
    \E a, b \in Reqs :
        /\ IsAuthorize(a) /\ req[a].error = "StoreError" /\ req[a].status = 500
        /\ IsAuthorize(b) /\ req[b].error = "SyntaxError" /\ req[b].status = 500
        /\ req[b].userContext[1].token = CorruptToken

(***************************************************************************)
(* C17.  A handleCallback request that carries a code is never rejected    *)
(* for lacking a pending handshake: whether or not an authorize call is    *)
(* suspended it exchanges the code and, unless the exchange or the upsert  *)
(* fails, adopts the credentials, upserts the token for the fixed identity *)
(* and answers 200.                                                        *)
(***************************************************************************)
C17_StrayCallbackServed ==
    [][\A c \in Reqs :
         /\ (ArrivesAs(c, "handleCallback") /\ req'[c].code # Undefined) =>
               \/ /\ req'[c].pc = "findOneAndUpdate"
                  /\ req'[c].exchanges = 1
                  /\ req'[c].tokens \in TokenSets
                  /\ credentials' = req'[c].tokens
               \/ /\ req'[c].pc = "done" /\ req'[c].status = 500
                  /\ req'[c].error = "ExchangeError"
         /\ (IsCallback(c) /\ req[c].pc = "findOneAndUpdate" /\ ~Untouched(c)) =>
               \/ /\ req'[c].pc = "updated" /\ req'[c].error = "none"
                  /\ req'[c].writes = 1
                  /\ WithEmail(store', emailId)[1].token = req[c].savedToken
               \/ /\ req'[c].pc = "updated" /\ req'[c].error = "StoreError"
         /\ (IsCallback(c) /\ req[c].pc = "updated" /\ ~Untouched(c)) =>
               /\ req'[c].pc = "done"
               /\ req'[c].status = (IF req[c].error = "none" THEN 200 ELSE 500)
      ]_vars

\* A callback no authorize call ever waited for has been answered 200.
C17_Witness ==
    \E c \in Reqs :
        /\ IsCallback(c) /\ req[c].status = 200 /\ req[c].pending = {}
        /\ \A a \in Reqs : ~IsAuthorize(a)
        /\ HasToken(store)
        /\ credentials = req[c].tokens

(***************************************************************************)
(* C18.  Once the collection holds a non-blank token for the fixed         *)
(* identity it holds one in every later state: no request deletes the      *)
(* document or resets its token to the blank sentinel.                     *)
(***************************************************************************)
C18_TokenNeverLost ==
    [][HasToken(store) => HasToken(store')]_vars

\* With a token stored, a saveContext for the fixed identity, a failed
\* callback and an authorize call have all run.
C18_Witness ==
    /\ HasToken(store)
    /\ \E r, c \in Reqs :
         /\ IsSaveContext(r) /\ Answered(r) /\ req[r].fields.emailId = emailId
         /\ CallbackFailed(c)

(***************************************************************************)
(* C19.  As claimed: once a handleCallback has persisted a token and       *)
(* emitted 'tokensSaved' with null, no authorize call is suspended on the  *)
(* handshake in any later state.                                           *)
(***************************************************************************)
C19_NoCallSuspendedAfterSuccess ==
    (\E c \in Reqs : IsCallback(c) /\ req[c].signal = "null") =>
        \A a \in Reqs : ~Suspended(a)

(***************************************************************************)
(* C20.  As claimed: in every state where no request is in flight and the  *)
(* active credential set has been set, it equals the credential set        *)
(* serialized in the stored token of the fixed identity.                   *)
(***************************************************************************)
C20_CredentialsMatchStore ==
    (/\ \A r \in Reqs : req[r].kind # "none" => Answered(r)
     /\ credentials # EmptyCredentials) =>
        /\ HasUsableToken(store)
        /\ credentials = JSONparse(FindOne(store, emailId)[1].token)

=============================================================================
